---- MODULE Spec2Model ----
(***************************************************************************)
(* State-machine model of the WhatsApp REST servers of this repository:    *)
(*   "server_js" : src/server.js          (Railway variant)                *)
(*   "part_000"  : src/unnamed/part_000   (generic Node variant)           *)
(*   "part_001"  : src/unnamed/part_001   (Vercel variant)                 *)
(* The variant is fixed in the initial state; every action is the          *)
(* translation of one callback (or of one run-to-the-next-await segment of *)
(* an async handler) of that variant.  The whatsapp-web.js client is an    *)
(* external black box: its events may arrive in any order once a client    *)
(* has been constructed, and each of its asynchronous calls returns or     *)
(* throws nondeterministically.                                            *)
(***************************************************************************)
EXTENDS Integers, Sequences, FiniteSets, TLC

\* ------------------------------------------------------------- bounds
\* pending reconnect timers (setTimeout 5000) the model keeps at once
MaxTimers == 2
\* clients the Vercel variant (which has no attempt cap) may construct
MaxClients == 3
\* distinct QR payloads the client may emit
MaxQr == 1
\* qr events of one login, numbered in the order the client emits them
MaxQrRefresh == 2
\* sends abandoned by a timeout whose promise is still pending
MaxLate == 1

\* ---------------------------------------------------- program constants
MAX_INIT_ATTEMPTS == 3

Variants == {"server_js", "part_000", "part_001"}

\* disconnect reasons: the one the handlers compare against, and any other
Reasons == {"LOGOUT", "NAVIGATION"}

\* What lastEvent records: the auth_failure handler, the disconnected
\* handler with reason LOGOUT, a rejection of client.initialize() that a
\* .catch handled, such a rejection with no handler attached to the promise
\* (what the runtime then does, a warning or the end of the process, is not
\* a step of the server: a process that has ended takes no steps), the
\* logout handler answering 400 for want of a client, answering success, or
\* answering 500 from its catch, the ready handler run by the event of a
\* client that has been replaced, and any other handler.
Events == {"auth_failure", "logout_disconnect", "init_rejected",
           "init_rejected_unhandled", "logout_no_client", "logout_ok",
           "logout_failed", "replaced_client_ready", "other"}

VARIABLES
    variant,            \* which server file runs
    started,            \* the app.listen callback has run
    client,             \* 0 = null/undefined, k = the k-th constructed Client
    isReady,
    isAuthenticated,    \* server_js, part_000 only
    clientInitialized,  \* server_js, part_001 only
    initAttempts,       \* server_js, part_000 only
    qrCode,             \* qrCode / qrCodeData: 0 = null, q = rendering of payload q
    qrRenders,          \* qrcode.toDataURL calls in flight: <<payload, stage>>
    timers,             \* pending reconnect timers
    initializing,       \* clients whose initialize() promise is pending
    initTimeouts,       \* part_001: armed 25 s initTimeout timers (by client)
    logoutPc,           \* POST /logout handler: "idle" or "awaiting" client.logout()
    lastInit,           \* history: what the last call of the init function did
    afterLogout,        \* history: last disconnected event had reason LOGOUT
    owed,               \* history: a reconnect is owed since a disconnect
    destroyed,          \* the clients on which the server has called destroy()
    sessionStore,       \* the LocalAuth session directory (dataPath) exists
    lastEvent,          \* history: the handler that ran last (see Events)
    req,                \* the HTTP send request being handled (one at a time)
    late,               \* part_000: client.sendMessage promises that lost the
                        \* race against the 30 s timer: how many are pending,
                        \* and (history) whether one has settled since
    nphone,             \* normalization: the input identifier
    nkind,              \* normalization: "single" or "bulk" formatting
    nout,               \* normalization: the formatted identifier
    npc                 \* normalization: "off", "in" or "out"

lifeVars == <<variant, started, client, isReady, isAuthenticated,
              clientInitialized, initAttempts, qrCode, qrRenders, timers,
              initializing, initTimeouts, logoutPc, lastInit, afterLogout, owed,
              destroyed, sessionStore, lastEvent>>

normVars == <<nphone, nkind, nout, npc>>

vars == <<lifeVars, req, late, normVars>>

\* ------------------------------------------------ identifiers (strings)
\* A string is a sequence of characters.  The five characters "@c.us" occur
\* only together and are one element (Suffix) of the sequence, so that
\* s.includes('@c.us') is membership of that element.
Suffix == "@c.us"

Digits == {"0", "1", "2", "3", "4", "5", "6", "7", "8", "9"}

IsDigit(c) == c \in Digits

\* s.includes('@c.us')
Includes(s) == \E k \in 1..Len(s) : s[k] = Suffix

\* s.trim()
Trim(s) ==
    LET keep == {k \in 1..Len(s) : s[k] # " "}
        first == CHOOSE k \in keep : \A j \in keep : k <= j
        last == CHOOSE k \in keep : \A j \in keep : k >= j
    IN IF keep = {} THEN <<>> ELSE SubSeq(s, first, last)

\* s.replace(/\D/g, '')
StripNonDigits(s) == SelectSeq(s, IsDigit)

\* s.startsWith('91')
StartsWith91(s) == Len(s) >= 2 /\ s[1] = "9" /\ s[2] = "1"

\* the length of a local number, which gets the country code
LocalLen == 10

\* '91' + digits, when the digits are a local number not starting with 91
AddCountryCode(d) ==
    IF ~StartsWith91(d) /\ Len(d) = LocalLen THEN <<"9", "1">> \o d ELSE d

\* The body of the "if (!x.includes('@c.us'))" of server.js.
FormatDigits(s) == Append(AddCountryCode(StripNonDigits(s)), Suffix)

\* Faulty variant of the formatting: the suffix is appended unconditionally.
AppendSuffix_Always(s) == Append(s, Suffix)

\* phone.includes('@c.us') ? phone : `${phone}@c.us`
AppendSuffix(s) == IF Includes(s) THEN s ELSE Append(s, Suffix)

\* The destination a single send computes from req.body.phone.
FormatSingle(phone) ==
    IF variant = "server_js"
    THEN LET t == Trim(phone) IN IF Includes(t) THEN t ELSE FormatDigits(t)
    ELSE AppendSuffix(phone)

\* The destination a bulk send computes from contact.phone || contact
\* (server.js) or contact.phone (part_000).
FormatBulk(phone) ==
    IF variant = "server_js"
    THEN IF Includes(phone) THEN phone ELSE FormatDigits(phone)
    ELSE AppendSuffix(phone)

\* --------------------------------------------------- the send requests
\* contacts a bulk request may list
MaxContacts == 2

\* Two phone numbers: a bare number and an identifier with the suffix.
P1 == <<"7">>
P2 == <<"9", Suffix>>

\* An element of req.body.contacts: a string, an object with a phone
\* property, or null.
ContactValues ==
    { [kind |-> "str", phone |-> P1],
      [kind |-> "obj", phone |-> P2],
      [kind |-> "null", phone |-> <<>>] }

ContactLists == UNION { [1..n -> ContactValues] : n \in 0..MaxContacts }

\* Messages of the errors the external client may raise, by the substring
\* the handlers look for.  Only the catch of part_000's single send tells a
\* closed session from any other error.
ErrKinds == {"LID", "Other"}

SingleErrKinds == ErrKinds \cup {"SessionClosed"}

NoResp == [status |-> 0, code |-> "none", total |-> 0, successful |-> 0,
           failed |-> 0]

\* The body of a read-only endpoint's response: which page or document it
\* is, and the fields the status and health documents carry.
NoView == [page |-> "none", connected |-> FALSE, ready |-> FALSE,
           authenticated |-> FALSE, hasQR |-> FALSE, initAttempts |-> 0]

\* The handler's locals.  i is the loop index plus one (0 in a single send);
\* calls logs every call on the client and every setTimeout delay of the
\* request, each with the index of the destination it was made for.
\* History of the guard: unreg holds the indices of the destinations that
\* client.isRegisteredUser reported as not registered; guard and gerr tell
\* how the last call of ensureChatExists stands ("none", "running", "ok",
\* "failed") and the error it threw.
IdleReq ==
    [pc |-> "idle", kind |-> "none", phone |-> <<>>, msg |-> FALSE,
     isArray |-> FALSE, contacts |-> <<>>, admitted |-> FALSE, i |-> 0,
     fphone |-> <<>>, results |-> <<>>, resp |-> NoResp, calls |-> <<>>,
     unreg |-> {}, guard |-> "none", gerr |-> "none", view |-> NoView]

\* res.status(status).json(...)
Respond(r, status, code) ==
    [r EXCEPT !.pc = "done",
              !.resp = [NoResp EXCEPT !.status = status, !.code = code]]

\* A call on the client (or a setTimeout) made for the current destination.
Issue(r, op) == [r EXCEPT !.calls = Append(@, <<op, r.i>>)]

IsSuccess(e) == e.success

IsFailure(e) == ~e.success

\* The summary response that ends a bulk send.
Summary(r) ==
    [r EXCEPT !.pc = "done",
              !.resp = [status |-> 200, code |-> "SUMMARY",
                        total |-> Len(r.contacts),
                        successful |-> Len(SelectSeq(r.results, IsSuccess)),
                        failed |-> Len(SelectSeq(r.results, IsFailure))]]

\* results.push({... success: true ...})
SuccessEntry(r) ==
    [who |-> IF variant = "server_js"
             THEN [kind |-> "formatted", phone |-> r.fphone]
             ELSE r.contacts[r.i],
     success |-> TRUE, stage |-> "none", err |-> "none"]

\* results.push({... success: false ...})
FailureEntry(r, stage, err) ==
    [who |-> IF variant = "server_js"
             THEN [kind |-> "raw", phone |-> r.contacts[r.i].phone]
             ELSE r.contacts[r.i],
     success |-> FALSE, stage |-> stage, err |-> err]

Push(r, e) == [r EXCEPT !.results = Append(@, e)]

\* Faulty variant of the handlers: the guard is left out and the message is
\* sent at once.
GuardStart_Skipped(r) ==
    [Issue(r, "sendMessage")
        EXCEPT !.pc = IF r.kind = "single" THEN "s_send" ELSE "b_send"]

\* The first call of ensureChatExists.
GuardStart(r) ==
    LET g == [r EXCEPT !.guard = "running", !.gerr = "none"] IN
    IF variant = "server_js"
    THEN [Issue(g, "isRegisteredUser") EXCEPT !.pc = "g_isReg"]
    ELSE [Issue(g, "getChatById") EXCEPT !.pc = "g_getChat"]

RECURSIVE Loop(_)
\* The for loop of bulk send from index r.i, up to its next await or to the
\* response: the formatting of the contact and the first call of the guard.
\* Reading .phone of a null contact throws in the try and again in the catch
\* of the iteration, which ends the handler in its outer catch.
Loop(r) ==
    IF r.i > Len(r.contacts) THEN Summary(r)
    ELSE LET c == r.contacts[r.i] IN
         IF c.kind = "null" THEN Respond(r, 500, "ERROR")
         ELSE IF variant = "part_000" /\ c.kind = "str"
         THEN Loop([Push(r, FailureEntry(r, "format", "TypeError"))
                        EXCEPT !.i = r.i + 1])
         ELSE GuardStart([r EXCEPT !.fphone = FormatBulk(c.phone)])

\* Faulty variant of the loop: a send that failed is attempted once more.
NextContact_Retry(r, e) ==
    IF ~e.success /\ e.stage = "send"
       /\ Cardinality({k \in 1..Len(r.calls) : r.calls[k] = <<"sendMessage", r.i>>}) < 2
    THEN [Issue(r, "sendMessage") EXCEPT !.pc = "b_send"]
    ELSE Loop([Push(r, e) EXCEPT !.i = r.i + 1])

\* Faulty variant of the loop: the next destination is started without the
\* entry of this one having been recorded.
NextContact_Unrecorded(r, e) == Loop([r EXCEPT !.i = r.i + 1])

\* The iteration ends with an entry pushed; the loop goes on.
NextContact(r, e) == Loop([Push(r, e) EXCEPT !.i = r.i + 1])

\* Faulty variant of the callers: a guard failure ends the send in every
\* file, as it does in part_000.
GuardDone_FailFast(r, ok, err) ==
    LET g == [r EXCEPT !.guard = IF ok THEN "ok" ELSE "failed", !.gerr = err] IN
    IF r.kind = "single"
    THEN IF ok THEN [Issue(g, "sendMessage") EXCEPT !.pc = "s_send"]
         ELSE Respond(g, 400, "CHAT_FAILED")
    ELSE IF ok THEN [Issue(g, "sendMessage") EXCEPT !.pc = "b_send"]
         ELSE NextContact(g, FailureEntry(g, "guard", err))

\* Faulty variant of the callers: the guard's failure is swallowed in every
\* file and the user's message is sent at once.
GuardDone_SendsAnyway(r, ok, err) ==
    LET g == [r EXCEPT !.guard = IF ok THEN "ok" ELSE "failed", !.gerr = err] IN
    [Issue(g, "sendMessage")
        EXCEPT !.pc = IF r.kind = "single" THEN "s_send" ELSE "b_send"]

\* The caller resumes after "await ensureChatExists(...)" returned (ok) or
\* threw err.
GuardDone(r, ok, err) ==
    LET g == [r EXCEPT !.guard = IF ok THEN "ok" ELSE "failed", !.gerr = err] IN
    CASE variant = "server_js" /\ r.kind = "single" ->
            [Issue(g, "delay") EXCEPT !.pc = "s_delay"]
      [] variant = "server_js" /\ r.kind = "bulk" ->
            IF r.i > 1
            THEN [Issue(g, "delay") EXCEPT !.pc = "b_delay"]
            ELSE [Issue(g, "sendMessage") EXCEPT !.pc = "b_send"]
      [] variant = "part_000" /\ r.kind = "single" ->
            IF ok
            THEN [Issue(g, "sendMessage") EXCEPT !.pc = "s_send"]
            ELSE Respond(g, 400, "CHAT_FAILED")
      [] variant = "part_000" /\ r.kind = "bulk" ->
            IF ok
            THEN [Issue(g, "sendMessage") EXCEPT !.pc = "b_send"]
            ELSE NextContact(g, FailureEntry(g, "guard", err))

\* Faulty variant of the guard's catch: the error is swallowed and the
\* guard returns normally.
GuardThrows_Swallowed(r, err) == GuardDone(r, TRUE, "none")

\* Faulty variant of the guard's catch: server.js tries createChatAlternative
\* on every error.
GuardThrows_AlwaysAlternative(r, err) ==
    IF variant = "server_js"
    THEN [Issue(r, "getContactById") EXCEPT !.pc = "alt_contact"]
    ELSE GuardDone(r, FALSE, err)

\* The catch of ensureChatExists: server.js tries createChatAlternative on
\* a LID error, otherwise the error is rethrown.
GuardThrows(r, err) ==
    IF variant = "server_js" /\ err = "LID"
    THEN [Issue(r, "getContactById") EXCEPT !.pc = "alt_contact"]
    ELSE GuardDone(r, FALSE, err)

\* Faulty variant of the phase check: only the client is tested.
PhaseCheck_ClientOnly == client # 0

\* The phase check at the top of the send handlers.
PhaseCheck ==
    IF variant = "server_js" THEN isReady /\ client # 0 ELSE isReady

\* Faulty variant of the validation: an empty array is rejected.
ValidBulk_NonEmpty(isArray, contacts, msg) == isArray /\ Len(contacts) > 0 /\ msg

\* contacts && Array.isArray(contacts) && message
ValidBulk(isArray, contacts, msg) == isArray /\ msg

\* phone && message
ValidSingle(phone, msg) == phone # <<>> /\ msg

\* errorCode of the single send's error response.
ClassifySingle(err) ==
    CASE err = "LID" -> "NO_LID_ERROR"
      [] err = "SessionClosed" /\ variant = "part_000" -> "SESSION_CLOSED"
      [] OTHER -> "SEND_ERROR"

\* The "connected" field of the status endpoint's body.
StatusConnected ==
    IF variant = "part_001" THEN isReady ELSE isAuthenticated \/ isReady

\* The module-level state of each file after it has been loaded.
ConnInit ==
    /\ variant \in Variants
    /\ started = FALSE
    /\ client = 0
    /\ isReady = FALSE
    /\ isAuthenticated = FALSE
    /\ clientInitialized = FALSE
    /\ initAttempts = 0
    /\ qrCode = 0
    /\ qrRenders = {}
    /\ timers = 0
    /\ initializing = {}
    /\ initTimeouts = {}
    /\ logoutPc = "idle"
    /\ lastInit = "none"
    /\ afterLogout = FALSE
    /\ owed = FALSE
    /\ destroyed = {}
    /\ sessionStore = FALSE
    /\ lastEvent = "other"
    /\ req = IdleReq
    /\ late = [pending |-> 0, discarded |-> FALSE]

Init ==
    /\ ConnInit
    /\ nphone = <<>>
    /\ nkind = "single"
    /\ nout = <<>>
    /\ npc = "off"

HasAttemptCap == variant \in {"server_js", "part_000"}

\* Faulty variant of the init function: the cap check is missing.
initWhatsAppClient_NoCap ==
    /\ initAttempts' = IF HasAttemptCap THEN initAttempts + 1 ELSE initAttempts
    /\ client' = client + 1
    /\ initializing' = initializing \cup {client + 1}
    /\ initTimeouts' = initTimeouts
    /\ lastInit' = "constructed"
    /\ owed' = FALSE
    /\ destroyed' = destroyed
    /\ sessionStore' = TRUE

\* initWhatsAppClient / initializeWhatsApp: the cap check, the counter, the
\* construction of a new Client and the call of client.initialize().
initWhatsAppClient ==
    IF HasAttemptCap /\ initAttempts >= MAX_INIT_ATTEMPTS
    THEN /\ lastInit' = "capped"
         /\ UNCHANGED <<client, initAttempts, initializing, initTimeouts, owed,
                        destroyed, sessionStore>>
    ELSE /\ (variant = "part_001") => client < MaxClients
         /\ initAttempts' = IF HasAttemptCap THEN initAttempts + 1 ELSE initAttempts
         /\ client' = client + 1
         /\ initializing' = initializing \cup {client + 1}
         /\ initTimeouts' = IF variant = "part_001"
                            THEN initTimeouts \cup {client + 1}
                            ELSE initTimeouts
         /\ lastInit' = "constructed"
         /\ owed' = FALSE
         /\ destroyed' = IF variant = "part_001" /\ client # 0
                         THEN destroyed \cup {client} ELSE destroyed
         /\ sessionStore' = TRUE

\* app.listen callback (in part_001 together with its 2 s start timer).
StartServer ==
    /\ lastEvent' = "other"
    /\ ~started
    /\ started' = TRUE
    /\ initWhatsAppClient
    /\ UNCHANGED <<req, late, normVars, variant, isReady, isAuthenticated, clientInitialized, qrCode,
                   qrRenders, timers, logoutPc, afterLogout>>

\* Faulty variant of the ready handler: isAuthenticated is left alone in
\* every file, as it is in part_000.
EvReady_ReadyOnly ==
    /\ lastEvent' = "other"
    /\ UNCHANGED <<destroyed, sessionStore>>
    /\ client # 0
    /\ isReady' = TRUE
    /\ isAuthenticated' = isAuthenticated
    /\ qrCode' = 0
    /\ clientInitialized' = IF variant \in {"server_js", "part_001"}
                            THEN TRUE ELSE clientInitialized
    /\ owed' = FALSE
    /\ UNCHANGED <<req, late, normVars, variant, started, client, initAttempts, qrRenders, timers,
                   initializing, initTimeouts, logoutPc, lastInit, afterLogout>>

\* Faulty variant of the ready handler: a successful initialization resets
\* the attempt counter.
EvReady_ResetsAttempts ==
    /\ lastEvent' = "other"
    /\ UNCHANGED <<destroyed, sessionStore>>
    /\ client # 0
    /\ isReady' = TRUE
    /\ isAuthenticated' = IF variant = "server_js" THEN TRUE ELSE isAuthenticated
    /\ qrCode' = 0
    /\ clientInitialized' = IF variant \in {"server_js", "part_001"}
                            THEN TRUE ELSE clientInitialized
    /\ owed' = FALSE
    /\ initAttempts' = 0
    /\ UNCHANGED <<req, late, normVars, variant, started, client, qrRenders, timers,
                   initializing, initTimeouts, logoutPc, lastInit, afterLogout>>

\* client.on('ready')
EvReady ==
    /\ lastEvent' = "other"
    /\ UNCHANGED <<destroyed, sessionStore>>
    /\ client # 0
    /\ isReady' = TRUE
    /\ isAuthenticated' = IF variant = "server_js" THEN TRUE ELSE isAuthenticated
    /\ qrCode' = 0
    /\ clientInitialized' = IF variant \in {"server_js", "part_001"}
                            THEN TRUE ELSE clientInitialized
    /\ owed' = FALSE
    /\ UNCHANGED <<req, late, normVars, variant, started, client, initAttempts, qrRenders, timers,
                   initializing, initTimeouts, logoutPc, lastInit, afterLogout>>

\* client.on('authenticated')
EvAuthenticated ==
    /\ lastEvent' = "other"
    /\ UNCHANGED <<destroyed, sessionStore>>
    /\ client # 0
    /\ IF variant = "part_001"
       THEN isReady' = TRUE /\ UNCHANGED isAuthenticated
       ELSE isAuthenticated' = TRUE /\ UNCHANGED isReady
    /\ qrCode' = 0
    /\ UNCHANGED <<req, late, normVars, variant, started, client, clientInitialized, initAttempts,
                   qrRenders, timers, initializing, initTimeouts, logoutPc,
                   lastInit, afterLogout, owed>>

\* client.on('auth_failure')
EvAuthFailure ==
    /\ lastEvent' = "auth_failure"
    /\ UNCHANGED <<destroyed, sessionStore>>
    /\ client # 0
    /\ isReady' = FALSE
    /\ isAuthenticated' = FALSE
    /\ qrCode' = 0
    /\ UNCHANGED <<req, late, normVars, variant, started, client, clientInitialized, initAttempts,
                   qrRenders, timers, initializing, initTimeouts, logoutPc,
                   lastInit, afterLogout, owed>>

\* Whether the disconnected handler arms the 5 s reconnect timer.
SchedulesReconnect(reason) ==
    CASE variant = "server_js" -> reason # "LOGOUT"
      [] variant = "part_000"  -> ~(reason = "LOGOUT")
      [] variant = "part_001"  -> TRUE

\* client.on('disconnected')
EvDisconnected(reason) ==
    /\ lastEvent' = IF reason = "LOGOUT" THEN "logout_disconnect" ELSE "other"
    /\ UNCHANGED <<destroyed, sessionStore>>
    /\ client # 0
    /\ isReady' = FALSE
    /\ isAuthenticated' = FALSE
    /\ qrCode' = IF variant = "part_000" /\ reason # "LOGOUT" THEN qrCode ELSE 0
    /\ clientInitialized' = FALSE
    /\ IF SchedulesReconnect(reason)
       THEN timers < MaxTimers /\ timers' = timers + 1
       ELSE UNCHANGED timers
    /\ afterLogout' = (reason = "LOGOUT")
    /\ owed' = IF reason # "LOGOUT" /\ HasAttemptCap /\ initAttempts < MAX_INIT_ATTEMPTS
               THEN TRUE ELSE owed
    /\ UNCHANGED <<req, late, normVars, variant, started, client, initAttempts, qrRenders,
                   initializing, initTimeouts, logoutPc, lastInit>>

\* Faulty variant of the timer's condition: the test is inverted.
ReconnectWanted_Negated ==
    CASE variant = "server_js" -> clientInitialized \/ initAttempts >= MAX_INIT_ATTEMPTS
      [] variant = "part_000"  -> isReady
      [] variant = "part_001"  -> clientInitialized

\* The condition under which the reconnect timer's callback calls the init
\* function.
ReconnectWanted ==
    CASE variant = "server_js" -> ~clientInitialized /\ initAttempts < MAX_INIT_ATTEMPTS
      [] variant = "part_000"  -> ~isReady
      [] variant = "part_001"  -> ~clientInitialized

\* The callback of the setTimeout(..., 5000) armed by the disconnected handler.
ReconnectTimerFires ==
    /\ lastEvent' = "other"
    /\ timers > 0
    /\ timers' = timers - 1
    /\ IF ReconnectWanted
       THEN initWhatsAppClient
       ELSE UNCHANGED <<client, initAttempts, initializing, initTimeouts, lastInit,
                        owed, destroyed, sessionStore>>
    /\ UNCHANGED <<req, late, normVars, variant, started, isReady, isAuthenticated, clientInitialized,
                   qrCode, qrRenders, logoutPc, afterLogout>>

\* The promise of client.initialize() rejects.
InitializeRejects(c) ==
    /\ lastEvent' = IF variant = "part_000" THEN "init_rejected_unhandled"
                    ELSE "init_rejected"
    /\ UNCHANGED <<destroyed, sessionStore>>
    /\ c \in initializing
    /\ initializing' = initializing \ {c}
    /\ initTimeouts' = initTimeouts \ {c}
    /\ IF variant = "server_js"
       THEN isReady' = FALSE /\ isAuthenticated' = FALSE
       ELSE UNCHANGED <<isReady, isAuthenticated>>
    /\ UNCHANGED <<req, late, normVars, variant, started, client, clientInitialized, initAttempts,
                   qrCode, qrRenders, timers, logoutPc, lastInit, afterLogout, owed>>

\* The promise of client.initialize() resolves.
InitializeResolves(c) ==
    /\ lastEvent' = "other"
    /\ UNCHANGED <<destroyed, sessionStore>>
    /\ c \in initializing
    /\ initializing' = initializing \ {c}
    /\ initTimeouts' = initTimeouts \ {c}
    /\ UNCHANGED <<req, late, normVars, variant, started, client, isReady, isAuthenticated,
                   clientInitialized, initAttempts, qrCode, qrRenders, timers,
                   logoutPc, lastInit, afterLogout, owed>>

\* part_001: the callback of the 25 s initTimeout timer.
InitTimeoutFires(c) ==
    /\ lastEvent' = "other"
    /\ UNCHANGED <<destroyed, sessionStore>>
    /\ c \in initTimeouts
    /\ initTimeouts' = initTimeouts \ {c}
    /\ clientInitialized' = IF ~clientInitialized /\ ~isReady THEN TRUE
                            ELSE clientInitialized
    /\ UNCHANGED <<req, late, normVars, variant, started, client, isReady, isAuthenticated,
                   initAttempts, qrCode, qrRenders, timers, initializing,
                   logoutPc, lastInit, afterLogout, owed>>

\* client.on('qr'): the handler runs up to its await of qrcode.toDataURL.
EvQr(q) ==
    /\ lastEvent' = "other"
    /\ UNCHANGED <<destroyed, sessionStore>>
    /\ client # 0
    /\ <<q, 1>> \notin qrRenders
    /\ qrRenders' = qrRenders \cup {<<q, 1>>}
    /\ UNCHANGED <<req, late, normVars, variant, started, client, isReady, isAuthenticated,
                   clientInitialized, initAttempts, qrCode, timers, initializing,
                   initTimeouts, logoutPc, lastInit, afterLogout, owed>>

\* A qrcode.toDataURL call settles and the qr handler resumes: it stores the
\* image; on failure part_000 starts its fallback rendering (stage 2).
QrRenderSettles(r, ok) ==
    /\ lastEvent' = "other"
    /\ UNCHANGED <<destroyed, sessionStore>>
    /\ r \in qrRenders
    /\ qrCode' = IF ok THEN r[1] ELSE qrCode
    /\ qrRenders' = IF ~ok /\ variant = "part_000" /\ r[2] = 1
                    THEN (qrRenders \ {r}) \cup {<<r[1], 2>>}
                    ELSE qrRenders \ {r}
    /\ UNCHANGED <<req, late, normVars, variant, started, client, isReady, isAuthenticated,
                   clientInitialized, initAttempts, timers, initializing,
                   initTimeouts, logoutPc, lastInit, afterLogout, owed>>

\* POST /logout (server_js), POST /api/whatsapp/logout (part_000): up to the
\* await of client.logout().
LogoutArrives ==
    /\ lastEvent' = IF client = 0 THEN "logout_no_client" ELSE "other"
    /\ UNCHANGED <<destroyed, sessionStore>>
    /\ variant \in {"server_js", "part_000"}
    /\ logoutPc = "idle"
    /\ logoutPc' = IF client = 0 THEN "idle" ELSE "awaiting"
    /\ UNCHANGED <<req, late, normVars, variant, started, client, isReady, isAuthenticated,
                   clientInitialized, initAttempts, qrCode, qrRenders, timers,
                   initializing, initTimeouts, lastInit, afterLogout, owed>>

\* client.logout() settles and the logout handler resumes.
LogoutSettles(ok) ==
    /\ lastEvent' = IF ok THEN "logout_ok" ELSE "logout_failed"
    /\ UNCHANGED <<destroyed, sessionStore>>
    /\ logoutPc = "awaiting"
    /\ logoutPc' = "idle"
    /\ IF ok
       THEN /\ isReady' = FALSE
            /\ isAuthenticated' = FALSE
            /\ qrCode' = 0
            /\ clientInitialized' = IF variant = "server_js" THEN FALSE
                                    ELSE clientInitialized
       ELSE UNCHANGED <<isReady, isAuthenticated, qrCode, clientInitialized>>
    /\ UNCHANGED <<req, late, normVars, variant, started, client, initAttempts, qrRenders, timers,
                   initializing, initTimeouts, lastInit, afterLogout, owed>>

\* The client library removes its own session directory (LocalAuth does so
\* inside client.logout()); no code of the server removes it.
ClientWipesSession ==
    /\ sessionStore
    /\ sessionStore' = FALSE
    /\ lastEvent' = "other"
    /\ UNCHANGED <<req, late, normVars, variant, started, client, isReady, isAuthenticated,
                   clientInitialized, initAttempts, qrCode, qrRenders, timers,
                   initializing, initTimeouts, logoutPc, lastInit, afterLogout,
                   owed, destroyed>>

LifecycleNext ==
    \/ StartServer
    \/ EvReady
    \/ EvAuthenticated
    \/ EvAuthFailure
    \/ \E reason \in Reasons : EvDisconnected(reason)
    \/ ReconnectTimerFires
    \/ \E c \in initializing : InitializeRejects(c)
    \/ \E c \in initializing : InitializeResolves(c)
    \/ \E c \in initTimeouts : InitTimeoutFires(c)
    \/ LogoutArrives
    \/ \E ok \in BOOLEAN : LogoutSettles(ok)
    \/ \E q \in 1..MaxQr : EvQr(q)
    \/ \E r \in qrRenders, ok \in BOOLEAN : QrRenderSettles(r, ok)
    \/ ClientWipesSession

\* The connection lifecycle: every event, timer and /logout.
Spec == Init /\ [][LifecycleNext]_vars

\* The lifecycle with every armed reconnect timer eventually firing.
LiveSpec == Spec /\ WF_vars(ReconnectTimerFires)

\* --------------------------------------------- the replaced clients
\* The ready handler subscribed on client c runs after c has been replaced
\* by a reinitialization; c was not destroyed, so it may still emit.  The
\* handler is the one of EvReady: it does not look at which client emitted.
ReplacedClientReady(c) ==
    /\ c \in 1..(client - 1)
    /\ c \notin destroyed
    /\ lastEvent' = "replaced_client_ready"
    /\ isReady' = TRUE
    /\ isAuthenticated' = IF variant = "server_js" THEN TRUE ELSE isAuthenticated
    /\ qrCode' = 0
    /\ clientInitialized' = IF variant \in {"server_js", "part_001"}
                            THEN TRUE ELSE clientInitialized
    /\ owed' = FALSE
    /\ UNCHANGED <<req, late, normVars, variant, started, client, initAttempts, qrRenders, timers,
                   initializing, initTimeouts, logoutPc, lastInit, afterLogout,
                   destroyed, sessionStore>>

\* Disconnects and reconnects, with the events of the current client and
\* the ready event of the clients it replaced.
ReplacedSpec ==
    Init /\ [][\/ StartServer
                \/ EvReady
                \/ EvAuthenticated
                \/ EvAuthFailure
                \/ \E reason \in Reasons : EvDisconnected(reason)
                \/ ReconnectTimerFires
                \/ \E c \in 1..MaxClients : ReplacedClientReady(c)]_vars

\* Disconnects, reconnect timers and the ready event alone: here a client
\* is constructed only by a reconnect timer, and a reconnect stops being
\* owed only by such a construction or by a ready event.
ReconnectSpec ==
    Init /\ [][\/ StartServer
                \/ EvReady
                \/ \E reason \in Reasons : EvDisconnected(reason)
                \/ ReconnectTimerFires]_vars

\* ------------------------------------------------ the QR refreshes
\* The client replaces its QR payload while the login is awaited: the q-th
\* qr event carries payload q, so a payload is newer than every payload
\* whose rendering is pending or stored.
QrRefresh(q) ==
    /\ \A r \in qrRenders : r[1] < q
    /\ qrCode < q
    /\ EvQr(q)

QrNext ==
    \/ \E q \in 1..MaxQrRefresh : QrRefresh(q)
    \/ \E r \in qrRenders, ok \in BOOLEAN : QrRenderSettles(r, ok)

\* The qr events in their order, their renderings settling in any order,
\* and the connection events.
QrSpec ==
    Init /\ [][StartServer \/ EvReady \/ EvAuthenticated \/ EvAuthFailure
                 \/ QrNext]_vars

\* The lifecycle with every armed timer eventually firing: the 5 s reconnect
\* timers and part_001's 25 s initTimeout timers.
TimersLiveSpec ==
    /\ Spec
    /\ WF_vars(ReconnectTimerFires)
    /\ WF_vars(\E c \in initTimeouts : InitTimeoutFires(c))

\* ------------------------------------------------- the send handlers
\* Every request action leaves the connection state alone, but for isReady.
connVars == <<variant, started, client, isAuthenticated, clientInitialized,
              initAttempts, qrCode, qrRenders, timers, initializing,
              initTimeouts, logoutPc, lastInit, afterLogout, owed, destroyed,
              sessionStore, lastEvent>>

\* POST /send (server_js, part_001), POST /api/whatsapp/send-message
\* (part_000): from the phase check to the first await.
SendArrives(phone, msg) ==
    /\ req.pc = "idle"
    /\ req' = LET r0 == [IdleReq EXCEPT !.kind = "single", !.phone = phone,
                                        !.msg = msg]
                  r1 == [r0 EXCEPT !.admitted = TRUE]
              IN IF ~PhaseCheck THEN Respond(r0, 400, "NOT_CONNECTED")
                 ELSE IF ~ValidSingle(phone, msg) THEN Respond(r0, 400, "REQUIRED")
                 ELSE CASE variant = "server_js" ->
                             GuardStart([r1 EXCEPT !.fphone = FormatSingle(phone)])
                        [] variant = "part_000" ->
                             [Issue(r1, "getState") EXCEPT !.pc = "s_state"]
                        [] variant = "part_001" ->
                             [Issue([r1 EXCEPT !.fphone = FormatSingle(phone)],
                                    "sendMessage") EXCEPT !.pc = "s_send"]
    /\ UNCHANGED <<connVars, isReady, late, normVars>>

\* POST /send-bulk (server_js), POST /api/whatsapp/send-bulk (part_000): from
\* the phase check to the first await, or to the response.
BulkArrives(isArray, contacts, msg) ==
    /\ variant \in {"server_js", "part_000"}
    /\ req.pc = "idle"
    /\ req' = LET r0 == [IdleReq EXCEPT !.kind = "bulk", !.isArray = isArray,
                                        !.contacts = contacts, !.msg = msg]
              IN IF ~PhaseCheck THEN Respond(r0, 400, "NOT_CONNECTED")
                 ELSE IF ~ValidBulk(isArray, contacts, msg) THEN Respond(r0, 400, "REQUIRED")
                 ELSE Loop([r0 EXCEPT !.admitted = TRUE, !.i = 1])
    /\ UNCHANGED <<connVars, isReady, late, normVars>>

\* part_000 single send: client.getState() settles.
GetStateSettles(out) ==
    /\ req.pc = "s_state"
    /\ req' = IF out = "CONNECTED"
              THEN GuardStart([req EXCEPT !.fphone = FormatSingle(req.phone)])
              ELSE Respond(req, 503, "NOT_AVAILABLE")
    /\ UNCHANGED <<connVars, isReady, late, normVars>>

\* The guard: client.isRegisteredUser settles ("true", "false" or an error).
IsRegisteredSettles(out) ==
    /\ req.pc = "g_isReg"
    /\ req' = IF out = "true"
              THEN IF variant = "server_js"
                   THEN [Issue(req, "getChatById") EXCEPT !.pc = "g_getChat"]
                   ELSE [Issue(req, "sendDot") EXCEPT !.pc = "g_dummy"]
              ELSE IF out = "false"
              THEN GuardThrows([req EXCEPT !.unreg = @ \cup {req.i}], "NotRegistered")
              ELSE GuardThrows(req, out)
    /\ UNCHANGED <<connVars, isReady, late, normVars>>

\* The guard: client.getChatById settles (a chat, a falsy value or an error).
GetChatSettles(out) ==
    /\ req.pc = "g_getChat"
    /\ req' = IF out = "chat" THEN GuardDone(req, TRUE, "none")
              ELSE IF variant = "server_js"
              THEN [Issue(req, "sendDot") EXCEPT !.pc = "g_dummy"]
              ELSE [Issue(req, "isRegisteredUser") EXCEPT !.pc = "g_isReg"]
    /\ UNCHANGED <<connVars, isReady, late, normVars>>

\* The guard: client.sendMessage(formattedPhone, '.') settles.
DummySendSettles(out) ==
    /\ req.pc = "g_dummy"
    /\ req' = IF out = "ok"
              THEN [Issue(req, "delay") EXCEPT !.pc = "g_settle"]
              ELSE GuardThrows(req, out)
    /\ UNCHANGED <<connVars, isReady, late, normVars>>

\* The guard: the 1000 ms settle delay elapses and the guard returns.
SettleElapses ==
    /\ req.pc = "g_settle"
    /\ req' = GuardDone(req, TRUE, "none")
    /\ UNCHANGED <<connVars, isReady, late, normVars>>

\* createChatAlternative: client.getContactById settles (either way).
AltContactSettles ==
    /\ req.pc = "alt_contact"
    /\ req' = [Issue(req, "sendTest") EXCEPT !.pc = "alt_send"]
    /\ UNCHANGED <<connVars, isReady, late, normVars>>

\* createChatAlternative: its client.sendMessage settles.
AltSendSettles(ok) ==
    /\ req.pc = "alt_send"
    /\ req' = GuardDone(req, ok, "Blocked")
    /\ UNCHANGED <<connVars, isReady, late, normVars>>

\* server.js: the delay before the send elapses (500 ms in single send,
\* 2000 ms in bulk send) and client.sendMessage is called.
DelayElapses ==
    /\ req.pc \in {"s_delay", "b_delay"}
    /\ req' = [Issue(req, "sendMessage")
                  EXCEPT !.pc = IF req.pc = "s_delay" THEN "s_send" ELSE "b_send"]
    /\ UNCHANGED <<connVars, isReady, late, normVars>>

\* Single send: client.sendMessage(formattedPhone, message) settles.
SingleSendSettles(out) ==
    /\ req.pc = "s_send"
    /\ req' = IF out = "ok" THEN Respond(req, 200, "OK")
              ELSE Respond(req, 500, ClassifySingle(out))
    /\ isReady' = IF variant = "part_000" /\ out = "SessionClosed"
                  THEN FALSE ELSE isReady
    /\ UNCHANGED <<connVars, late, normVars>>

\* part_000 single send: the 30 s sendTimeout wins the Promise.race; the
\* promise of client.sendMessage stays pending.
SendTimeoutFires ==
    /\ variant = "part_000"
    /\ req.pc = "s_send"
    /\ late.pending < MaxLate
    /\ req' = Respond(req, 500, "TIMEOUT")
    /\ late' = [late EXCEPT !.pending = @ + 1]
    /\ UNCHANGED <<connVars, isReady, normVars>>

\* Faulty variant of the race: the continuation of the handler runs on the
\* late outcome as it does on a timely one.
OnLateSend_Handled(out) ==
    /\ req' = IF out = "ok" THEN Respond(req, 200, "OK")
              ELSE Respond(req, 500, ClassifySingle(out))
    /\ isReady' = IF out = "SessionClosed" THEN FALSE ELSE isReady

\* What the server does with the outcome of a client.sendMessage whose race
\* the timer has won: the race promise is settled already, the outcome
\* reaches no code of the handler.
OnLateSend(out) == UNCHANGED <<req, isReady>>

\* part_000: a client.sendMessage promise that lost its race settles.
LateSendSettles(out) ==
    /\ variant = "part_000"
    /\ late.pending > 0
    /\ late' = [pending |-> late.pending - 1, discarded |-> TRUE]
    /\ OnLateSend(out)
    /\ UNCHANGED <<connVars, normVars>>

\* Bulk send: client.sendMessage(phone, message) settles; the entry is
\* pushed; part_000 waits 3000 ms after a success that is not the last.
BulkSendSettles(out) ==
    /\ req.pc = "b_send"
    /\ req' = IF out # "ok"
              THEN NextContact(req, FailureEntry(req, "send", out))
              ELSE IF variant = "part_000" /\ req.i < Len(req.contacts)
              THEN [Issue(Push(req, SuccessEntry(req)), "delay")
                       EXCEPT !.pc = "b_wait"]
              ELSE NextContact(req, SuccessEntry(req))
    /\ UNCHANGED <<connVars, isReady, late, normVars>>

\* part_000 bulk send: the 3000 ms delay after a send elapses.
WaitElapses ==
    /\ req.pc = "b_wait"
    /\ req' = Loop([req EXCEPT !.i = req.i + 1])
    /\ UNCHANGED <<connVars, isReady, late, normVars>>

\* The response has been sent; the next request may arrive.
RequestEnds ==
    /\ req.pc = "done"
    /\ req' = IdleReq
    /\ UNCHANGED <<connVars, isReady, late, normVars>>

SendNext ==
    \/ \E phone \in {<<>>, P1, P2}, msg \in BOOLEAN : SendArrives(phone, msg)
    \/ \E isArray \in BOOLEAN, contacts \in ContactLists, msg \in BOOLEAN :
          /\ (~isArray => contacts = <<>>)
          /\ BulkArrives(isArray, contacts, msg)
    \/ \E out \in {"CONNECTED", "OTHER", "throw"} : GetStateSettles(out)
    \/ \E out \in {"true", "false"} \cup ErrKinds : IsRegisteredSettles(out)
    \/ \E out \in {"chat", "none", "throw"} : GetChatSettles(out)
    \/ \E out \in {"ok"} \cup ErrKinds : DummySendSettles(out)
    \/ SettleElapses
    \/ AltContactSettles
    \/ \E ok \in BOOLEAN : AltSendSettles(ok)
    \/ DelayElapses
    \/ \E out \in {"ok"} \cup SingleErrKinds : SingleSendSettles(out)
    \/ SendTimeoutFires
    \/ \E out \in {"ok"} \cup SingleErrKinds : LateSendSettles(out)
    \/ \E out \in {"ok"} \cup ErrKinds : BulkSendSettles(out)
    \/ WaitElapses
    \/ RequestEnds

\* The connection state as the send handlers see it.  A send handler reads
\* isReady and client and nothing else of the connection state; these four
\* actions take isReady and client through every value the full lifecycle
\* does (disconnected, a rejected initialize() and /logout write isReady as
\* auth_failure does, and besides that only variables no send handler reads).
ConnNext ==
    \/ StartServer
    \/ EvReady
    \/ EvAuthenticated
    \/ EvAuthFailure

\* The send handlers, interleaved at their awaits with the connection events.
SendSpec == Init /\ [][ConnNext \/ SendNext]_vars

\* The send handlers with time passing: every setTimeout the handlers arm
\* eventually fires.  Nothing obliges the external client to settle a call.
SendLiveSpec ==
    /\ SendSpec
    /\ WF_vars(SettleElapses)
    /\ WF_vars(DelayElapses)
    /\ WF_vars(WaitElapses)
    /\ WF_vars(SendTimeoutFires)

\* A step of the request in hand: a call on the client returns or throws,
\* or a delay of the handler elapses.
HandlerProceeds ==
    /\ req.pc \notin {"idle", "done"}
    /\ SendNext
    /\ req' # req

\* The send handlers with a client that answers: every call of a request
\* eventually returns or throws, every delay eventually elapses.
SendFairSpec == SendSpec /\ WF_vars(HandlerProceeds)

\* ------------------------------------------ the read-only endpoints
\* res.send(...) / res.json(...) of a handler that answers at once.
Reply(kind, view) ==
    [IdleReq EXCEPT !.kind = kind, !.pc = "done", !.view = view,
                    !.resp = [NoResp EXCEPT !.status = 200, !.code = "OK"]]

\* Which of its three pages GET /qr sends.
QrPage ==
    IF (IF variant = "server_js" THEN isReady \/ isAuthenticated ELSE isReady)
    THEN "qr_connected"
    ELSE IF qrCode # 0 THEN "qr_image" ELSE "qr_loading"

\* The body of GET /status (GET /api/whatsapp/status in part_000); part_001
\* sends neither ready nor authenticated, only server.js sends initAttempts.
StatusBody ==
    [page |-> "status",
     connected |-> StatusConnected,
     ready |-> IF variant = "part_001" THEN FALSE ELSE isReady,
     authenticated |-> IF variant = "part_001" THEN FALSE ELSE isAuthenticated,
     hasQR |-> qrCode # 0,
     initAttempts |-> IF variant = "server_js" THEN initAttempts ELSE 0]

\* GET /qr
GetQr ==
    /\ req.pc = "idle"
    /\ req' = Reply("qr", [NoView EXCEPT !.page = QrPage])
    /\ UNCHANGED <<connVars, isReady, late, normVars>>

\* GET /status
GetStatus ==
    /\ req.pc = "idle"
    /\ req' = Reply("status", StatusBody)
    /\ UNCHANGED <<connVars, isReady, late, normVars>>

\* GET /health: whatsapp is 'connected' or 'disconnected'.
GetHealth ==
    /\ req.pc = "idle"
    /\ req' = Reply("health", [NoView EXCEPT !.page = "health",
                                             !.connected = isReady])
    /\ UNCHANGED <<connVars, isReady, late, normVars>>

\* GET / (server_js, part_000): a fixed page.
GetHome ==
    /\ variant \in {"server_js", "part_000"}
    /\ req.pc = "idle"
    /\ req' = Reply("home", [NoView EXCEPT !.page = "home"])
    /\ UNCHANGED <<connVars, isReady, late, normVars>>

\* GET /chats (server_js), GET /api/whatsapp/chats (part_000): up to the
\* await of client.getChats().
ChatsArrives ==
    /\ variant \in {"server_js", "part_000"}
    /\ req.pc = "idle"
    /\ req' = LET r0 == [IdleReq EXCEPT !.kind = "chats"]
              IN IF ~PhaseCheck THEN Respond(r0, 400, "NOT_READY")
                 ELSE [Issue(r0, "getChats") EXCEPT !.pc = "c_chats"]
    /\ UNCHANGED <<connVars, isReady, late, normVars>>

\* Faulty variant of the chats handler: its catch resets isReady.
GetChatsSettles_Resets(ok) ==
    /\ req.pc = "c_chats"
    /\ req' = IF ok THEN Respond(req, 200, "OK") ELSE Respond(req, 500, "ERROR")
    /\ isReady' = IF ok THEN isReady ELSE FALSE
    /\ UNCHANGED <<connVars, late, normVars>>

\* client.getChats() settles and the chats handler answers.
GetChatsSettles(ok) ==
    /\ req.pc = "c_chats"
    /\ req' = IF ok THEN Respond(req, 200, "OK") ELSE Respond(req, 500, "ERROR")
    /\ UNCHANGED <<connVars, isReady, late, normVars>>

ReadNext ==
    \/ GetQr
    \/ GetStatus
    \/ GetHealth
    \/ GetHome
    \/ ChatsArrives
    \/ \E ok \in BOOLEAN : GetChatsSettles(ok)

\* Every HTTP handler but /logout, one request at a time, interleaved at
\* the awaits with the connection events.
HttpSpec == Init /\ [][ConnNext \/ SendNext \/ ReadNext]_vars

\* ------------------------------------------- normalization on its own
\* digits after the varying prefix of an input identifier
MaxFill == 10

RECURSIVE Fill(_)
Fill(k) == IF k = 0 THEN <<>> ELSE <<"5">> \o Fill(k - 1)

DigitPrefixes ==
    UNION { [1..n -> {"9", "1", "7"}] : n \in 0..2 }

\* Identifiers as callers write them: optional leading blank or plus sign,
\* digits with an optional dash, optional suffix or trailing blank.
PhoneInputs ==
    { pre \o d \o mid \o Fill(k) \o post :
        pre \in {<<>>, <<" ">>, <<"+">>},
        d \in DigitPrefixes,
        mid \in {<<>>, <<"-">>},
        k \in 0..MaxFill,
        post \in {<<>>, <<Suffix>>, <<" ">>} }

\* The formatting of whichever handler nkind names.
Format(kind, phone) ==
    IF kind = "single" THEN FormatSingle(phone) ELSE FormatBulk(phone)

NormInit ==
    /\ ConnInit
    /\ nphone \in PhoneInputs
    /\ nkind \in IF variant = "part_001" THEN {"single"} ELSE {"single", "bulk"}
    /\ nout = <<>>
    /\ npc = "in"

\* The handler formats the identifier it was given.
Normalize ==
    /\ npc = "in"
    /\ nout' = Format(nkind, nphone)
    /\ npc' = "out"
    /\ UNCHANGED <<lifeVars, req, late, nphone, nkind>>

\* The formatted identifier is given to the handler again.
Renormalize ==
    /\ npc = "out"
    /\ nout # nphone
    /\ nphone' = nout
    /\ npc' = "in"
    /\ UNCHANGED <<lifeVars, req, late, nkind, nout>>

NormSpec == NormInit /\ [][Normalize \/ Renormalize]_vars

\* ================================================================ claims

\* ---------------------------------------------------------------- C1
\* C1: a single or bulk send request that arrives while isReady is false
\* (also before any client exists) is answered in that same step with HTTP
\* 400, makes no call on the client and changes no connection state.
C1_NotReadyRejected ==
    [][ (req.pc = "idle" /\ req'.pc # "idle" /\ ~isReady)
          => /\ req'.pc = "done"
             /\ req'.resp.status = 400
             /\ req'.calls = <<>>
             /\ UNCHANGED lifeVars ]_vars

\* A request that arrived while isReady was false has been answered by the
\* phase check.
C1_Witness ==
    /\ req.pc = "done"
    /\ req.resp.code = "NOT_CONNECTED"
    /\ ~isReady

\* ---------------------------------------------------------------- C2
\* C2: in server.js and part_000 initAttempts never exceeds
\* MAX_INIT_ATTEMPTS, at most that many clients are constructed, and a call
\* of the init function at the cap constructs nothing, counts nothing and
\* arms no timer.
C2_AttemptsCapped ==
    /\ [](HasAttemptCap => /\ initAttempts <= MAX_INIT_ATTEMPTS
                           /\ client <= MAX_INIT_ATTEMPTS
                           /\ client = initAttempts)
    /\ [][ (HasAttemptCap /\ initAttempts >= MAX_INIT_ATTEMPTS
            /\ timers' < timers /\ ReconnectWanted)
             => /\ lastInit' = "capped"
                /\ UNCHANGED <<client, initAttempts, initializing, initTimeouts>>
                /\ timers' = timers - 1 ]_vars

\* The init function has been called at the cap and has returned early.
C2_Witness ==
    /\ HasAttemptCap
    /\ lastInit = "capped"
    /\ initAttempts = MAX_INIT_ATTEMPTS

\* ---------------------------------------------------------------- C3
\* C3: in server.js and part_000, after a disconnected event with reason
\* LOGOUT, as long as no disconnected event with another reason occurs, no
\* new client is constructed and initAttempts stays as it is.
C3_NoReinitAfterLogout ==
    [][ (HasAttemptCap /\ afterLogout /\ afterLogout')
          => (client' = client /\ initAttempts' = initAttempts) ]_vars

\* ---------------------------------------------------------------- C4
\* C4: in server.js and part_000, after a disconnected event with a reason
\* other than LOGOUT handled while initAttempts < 3, a new client is
\* eventually constructed by the init function, unless a ready event is
\* handled first (every armed reconnect timer eventually fires).
C4_ReconnectFollows == owed ~> ~owed

\* A second client has been constructed, which only a reconnect timer does.
C4_Witness ==
    /\ HasAttemptCap
    /\ client = 2
    /\ lastInit = "constructed"
    /\ ~owed

\* ---------------------------------------------------------------- C5
\* The entry describes the contact: it carries the contact, its phone or
\* the destination formatted from its phone.
Describes(e, c) ==
    \/ e.who = c
    \/ e.who.phone = c.phone
    \/ e.who.phone = FormatBulk(c.phone)

\* C5: every bulk send that passed the phase check and the validation is
\* answered with a results list holding one entry per contact, in the order
\* of the contacts, and with successful + failed = total = the number of
\* contacts.
C5_ResultsMatchContacts ==
    (req.pc = "done" /\ req.kind = "bulk" /\ req.admitted)
      => /\ req.resp.code = "SUMMARY"
         /\ Len(req.results) = Len(req.contacts)
         /\ \A k \in 1..Len(req.results) :
               k <= Len(req.contacts) /\ Describes(req.results[k], req.contacts[k])
         /\ req.resp.successful + req.resp.failed = req.resp.total
         /\ req.resp.total = Len(req.contacts)

\* What the code does keep of it: every summary response has these
\* properties (a batch with a null contact gets no summary response).
BulkSummaryMatchesContacts ==
    (req.pc = "done" /\ req.kind = "bulk" /\ req.resp.code = "SUMMARY")
      => /\ Len(req.results) = Len(req.contacts)
         /\ \A k \in 1..Len(req.results) : Describes(req.results[k], req.contacts[k])
         /\ req.resp.successful + req.resp.failed = req.resp.total
         /\ req.resp.total = Len(req.contacts)

\* ---------------------------------------------------------------- C6
\* C6: a failure at one destination of a bulk send never aborts the batch:
\* the request ends with the summary response (not an HTTP error) and every
\* destination of the list has been processed.
C6_FailureNeverAborts ==
    (req.pc = "done" /\ req.kind = "bulk" /\ req.admitted)
      => /\ req.resp.status = 200
         /\ \A k \in 1..Len(req.contacts) : k <= Len(req.results)

\* ---------------------------------------------------------------- C7
\* The calls a send makes on the client for a destination.
SendCalls == {"isRegisteredUser", "getChatById", "sendDot", "sendTest",
              "sendMessage"}

\* C7: no client call of a send request is issued at a moment when isReady
\* is false.
C7_NoCallWhenNotReady ==
    [][ (Len(req'.calls) > Len(req.calls)
         /\ req'.calls[Len(req'.calls)][1] \in SendCalls)
          => isReady ]_vars

\* ---------------------------------------------------------------- C8
\* C8: in server.js every input without the suffix whose digits are exactly
\* ten is formatted as 91, those ten digits, and the suffix.
C8_TenDigitsGetCountryCode ==
    (npc = "out" /\ variant = "server_js" /\ ~Includes(nphone)
     /\ Len(StripNonDigits(nphone)) = LocalLen)
      => nout = (<<"9", "1">> \o StripNonDigits(nphone)) \o <<Suffix>>

\* ---------------------------------------------------------------- C9
\* The identifier ends with the suffix.
CarriesSuffix(s) == Len(s) > 0 /\ s[Len(s)] = Suffix

\* C9 as stated: an identifier that carries the suffix is returned
\* unchanged by the formatting of every handler.
C9_SuffixedUnchanged ==
    (npc = "out" /\ CarriesSuffix(nphone)) => nout = nphone

\* C9 as amended: an identifier that carries the suffix is returned
\* unchanged, except that the single send of server.js strips leading and
\* trailing blanks from it; formatting a formatted identifier changes
\* nothing.
C9_SuffixedUnchangedUpToTrim ==
    /\ (npc = "out" /\ CarriesSuffix(nphone))
         => nout = IF variant = "server_js" /\ nkind = "single"
                   THEN Trim(nphone) ELSE nphone
    /\ npc = "out" => Format(nkind, nout) = nout

\* A suffixed identifier of several characters has been formatted.
C9_Witness ==
    /\ npc = "out"
    /\ CarriesSuffix(nphone)
    /\ Len(nphone) > 2
    /\ nout = nphone

\* ---------------------------------------------------------------- C10
\* C10: a bulk send with an empty contacts array and a message, arriving
\* while the server is ready, is answered in that same step with the summary
\* total 0, successful 0, failed 0 and an empty results list, with no call
\* on the client and no delay.
C10_EmptyBulkAnswered ==
    [][ (req.pc = "idle" /\ req'.kind = "bulk" /\ req'.isArray
         /\ req'.contacts = <<>> /\ req'.msg /\ isReady)
          => /\ req'.pc = "done"
             /\ req'.resp = [status |-> 200, code |-> "SUMMARY", total |-> 0,
                             successful |-> 0, failed |-> 0]
             /\ req'.results = <<>>
             /\ req'.calls = <<>> ]_vars

\* An empty bulk send has been answered with the summary.
C10_Witness ==
    /\ req.pc = "done"
    /\ req.kind = "bulk"
    /\ req.contacts = <<>>
    /\ req.resp.code = "SUMMARY"

\* ---------------------------------------------------------------- C11
\* C11: in a bulk send every destination that client.isRegisteredUser
\* reported as not registered has a failed entry with the not-registered
\* error in the results (and so is counted in summary.failed, never in
\* summary.successful).
C11_UnregisteredCountedFailed ==
    (req.pc = "done" /\ req.kind = "bulk" /\ req.resp.code = "SUMMARY")
      => \A k \in req.unreg :
            /\ k <= Len(req.results)
            /\ ~req.results[k].success
            /\ req.results[k].err = "NotRegistered"

\* ---------------------------------------------------------------- C12
\* The last call the request has issued.
LastCall(r) == r.calls[Len(r.calls)]

\* The step issues a call on the client (or a delay).
IssuesCall == Len(req'.calls) > Len(req.calls)

\* The first call ensureChatExists makes.
GuardFirstCall == IF variant = "server_js" THEN "isRegisteredUser" ELSE "getChatById"

\* C12: in server.js and part_000, whenever client.sendMessage is called
\* with the user's message for a destination, ensureChatExists was called
\* for that destination before and has returned or thrown.
C12_GuardBeforeSend ==
    [][ (HasAttemptCap /\ IssuesCall /\ LastCall(req')[1] = "sendMessage")
          => /\ req'.guard \in {"ok", "failed"}
             /\ \E k \in 1..(Len(req'.calls) - 1) :
                   req'.calls[k] = <<GuardFirstCall, LastCall(req')[2]>> ]_vars

\* The message is being sent to the second destination of a batch, after
\* the guard returned for it.
C12_Witness ==
    /\ HasAttemptCap
    /\ req.pc = "b_send"
    /\ req.i = 2
    /\ req.guard = "ok"

\* ---------------------------------------------------------------- C13
\* How often the request has made the call op for the destination i.
CallCount(r, op, i) ==
    Cardinality({k \in 1..Len(r.calls) : r.calls[k] = <<op, i>>})

\* The step is the one in which ensureChatExists returns or throws.
GuardFinishes == req.guard = "running" /\ req'.guard # "running"

\* isRegisteredUser reported the destination as registered: only then does
\* server.js go on to getChatById.
Registered(r) == CallCount(r, "getChatById", r.i) > 0

\* C13 as stated: in server.js the guard fails with the not-registered
\* error whenever the destination is reported as not registered; for a
\* registered destination it succeeds without sending anything when
\* getChatById returns a chat, and otherwise sends exactly one placeholder
\* message and then succeeds.
C13_GuardContract ==
    [][ (variant = "server_js" /\ GuardFinishes)
          => /\ (req'.i \in req'.unreg)
                   => /\ req'.guard = "failed"
                      /\ req'.gerr = "NotRegistered"
                      /\ CallCount(req', "getChatById", req'.i) = 0
             /\ (Registered(req) /\ req.pc = "g_getChat")
                   => /\ req'.guard = "ok"
                      /\ CallCount(req', "sendDot", req'.i) = 0
                      /\ CallCount(req', "sendTest", req'.i) = 0
             /\ (Registered(req) /\ req.pc # "g_getChat")
                   => /\ req'.guard = "ok"
                      /\ CallCount(req', "sendDot", req'.i) = 1
                      /\ CallCount(req', "sendTest", req'.i) = 0 ]_vars

\* C13 as amended: as above, but the placeholder message may fail to be
\* sent.  After exactly one placeholder message the guard succeeds when that
\* send resolved (after the settle delay); it fails with the send's error
\* when that send rejected without a LID error; on a LID error it sends one
\* test message more (createChatAlternative) and succeeds if that one is
\* sent, else fails with the cannot-create-chat error.
C13_GuardContractOnSendOutcome ==
    [][ (variant = "server_js" /\ GuardFinishes)
          => /\ (req'.i \in req'.unreg)
                   => /\ req'.guard = "failed"
                      /\ req'.gerr = "NotRegistered"
                      /\ CallCount(req', "getChatById", req'.i) = 0
             /\ (Registered(req) /\ req.pc = "g_getChat")
                   => /\ req'.guard = "ok"
                      /\ CallCount(req', "sendDot", req'.i) = 0
                      /\ CallCount(req', "sendTest", req'.i) = 0
             /\ (Registered(req) /\ req.pc # "g_getChat")
                   => /\ CallCount(req', "sendDot", req'.i) = 1
                      /\ req.pc \in {"g_settle", "g_dummy", "alt_send"}
                      /\ req.pc = "g_settle"
                           => /\ req'.guard = "ok"
                              /\ CallCount(req', "sendTest", req'.i) = 0
                      /\ req.pc = "g_dummy"
                           => /\ req'.guard = "failed"
                              /\ req'.gerr = "Other"
                              /\ CallCount(req', "sendTest", req'.i) = 0
                      /\ req.pc = "alt_send"
                           => /\ CallCount(req', "sendTest", req'.i) = 1
                              /\ req'.guard = "ok" \/ req'.gerr = "Blocked" ]_vars

\* The guard of server.js has thrown the not-registered error.
C13_Witness ==
    /\ variant = "server_js"
    /\ req.guard = "failed"
    /\ req.gerr = "NotRegistered"
    /\ req.i \in req.unreg

\* ---------------------------------------------------------------- C14
\* C14: in server.js a guard that throws ends neither the single send nor
\* the bulk iteration: the handler goes on to its delay and to
\* client.sendMessage with the user's message, no result entry and no
\* response comes from the guard, and what is reported is what the send did.
C14_GuardFailureStillSends ==
    /\ [][ (variant = "server_js" /\ req.guard = "running" /\ req'.guard = "failed")
             => /\ req'.pc \in {"s_delay", "b_delay", "b_send"}
                /\ req'.results = req.results
                /\ req'.resp = NoResp ]_vars
    /\ [][ (variant = "server_js" /\ req.pc \in {"s_delay", "b_delay"} /\ req' # req)
             => /\ LastCall(req') = <<"sendMessage", req.i>>
                /\ req'.pc \in {"s_send", "b_send"} ]_vars
    /\ [](variant = "server_js"
            => /\ \A k \in 1..Len(req.results) :
                     req.results[k].stage \in {"none", "send"}
               /\ (req.pc = "done" /\ req.kind = "single" /\ req.admitted)
                     => /\ LastCall(req) = <<"sendMessage", 0>>
                        /\ req.resp.code \in {"OK", "SEND_ERROR", "NO_LID_ERROR"})

\* A single send of server.js whose guard threw has been answered with
\* success, the send having worked.
C14_Witness ==
    /\ variant = "server_js"
    /\ req.pc = "done"
    /\ req.kind = "single"
    /\ req.guard = "failed"
    /\ req.resp.code = "OK"

\* ---------------------------------------------------------------- C20
\* C20: in server.js and part_000 a single send passes the phase check
\* exactly when isAuthenticated or isReady holds at its arrival.
C20_AdmittedWhenAuthenticated ==
    [][ (HasAttemptCap /\ req.pc = "idle" /\ req'.kind = "single")
          => (req'.resp.code # "NOT_CONNECTED" <=> (isAuthenticated \/ isReady)) ]_vars

\* ---------------------------------------------------------------- C15
\* C15: in server.js and part_000 the stored QR image is non-null only
\* while neither isReady nor isAuthenticated holds.
C15_QrOnlyWhileAwaitingScan ==
    HasAttemptCap => (qrCode # 0 => (~isReady /\ ~isAuthenticated))

\* ---------------------------------------------------------------- C16
\* The clients constructed so far on which destroy() has not been called.
LiveClients == (1..client) \ destroyed

\* C16: in server.js and part_000 at most one non-destroyed client exists:
\* the init function destroys the previous client before it constructs a
\* new one.
C16_OneLiveClient ==
    HasAttemptCap => Cardinality(LiveClients) <= 1

\* ---------------------------------------------------------------- C17
\* C17: the auth_failure handler leaves isReady and isAuthenticated false
\* and the stored QR null, and below the attempt cap it arms one timer that
\* retries the init function.
C17_AuthFailureRetries ==
    [][ (lastEvent' = "auth_failure")
          => /\ ~isReady' /\ ~isAuthenticated' /\ qrCode' = 0
             /\ (~HasAttemptCap \/ initAttempts < MAX_INIT_ATTEMPTS)
                   => timers' = timers + 1 ]_vars

\* ---------------------------------------------------------------- C18
\* C18: a rejection of client.initialize() is handled by the server,
\* leaves isReady and isAuthenticated false, and below the attempt cap arms
\* a timer that retries the init function.
C18_InitFailureHandled ==
    [][ (lastEvent' \in {"init_rejected", "init_rejected_unhandled"})
          => /\ lastEvent' = "init_rejected"
             /\ ~isReady' /\ ~isAuthenticated'
             /\ (~HasAttemptCap \/ initAttempts < MAX_INIT_ATTEMPTS)
                   => timers' = timers + 1 ]_vars

\* ---------------------------------------------------------------- C19
\* C19: when the disconnected handler has run for the reason LOGOUT, the
\* session directory does not exist any more.
C19_SessionRemovedOnLogout ==
    [][ (lastEvent' = "logout_disconnect") => ~sessionStore' ]_vars

\* C21: within one request client.sendMessage is called with the user's
\* message at most once for each destination (index 0 in a single send, the
\* index of the list entry in a bulk send), whatever the client raised; a
\* send that failed is answered or recorded as failed and not repeated.
C21_NoSendRetry ==
    /\ [](\A i \in 0..MaxContacts : CallCount(req, "sendMessage", i) <= 1)
    /\ [][ /\ (req.pc = "s_send" /\ req' # req) => req'.pc = "done"
           /\ (req.pc = "b_send" /\ req' # req)
                 => /\ Len(req'.results) > Len(req.results)
                    /\ CallCount(req', "sendMessage", req.i) = 1 ]_vars

\* A bulk send whose first send failed has gone on to the second
\* destination, and a single send has answered a failed send.
C21_Witness ==
    \/ /\ req.kind = "bulk" /\ req.pc = "done" /\ Len(req.results) = 2
       /\ req.results[1].stage = "send"
       /\ CallCount(req, "sendMessage", 1) = 1
       /\ CallCount(req, "sendMessage", 2) = 1
    \/ /\ req.kind = "single" /\ req.pc = "done"
       /\ req.resp.code = "SEND_ERROR"
       /\ CallCount(req, "sendMessage", 0) = 1

\* C22: in part_000's single send, when the 30 s timer fires while
\* client.sendMessage (called after the guard returned) has not settled, the
\* request is answered with the timeout error; when the abandoned send
\* settles later, with whatever outcome, the request and its response and
\* the whole connection state stay as they are.
C22_TimeoutThenDiscard ==
    [][ /\ (late'.pending > late.pending)
             => /\ req.pc = "s_send" /\ req.guard = "ok"
                /\ req'.pc = "done"
                /\ req'.resp = [NoResp EXCEPT !.status = 500, !.code = "TIMEOUT"]
        /\ (late'.pending < late.pending) => UNCHANGED <<req, lifeVars>> ]_vars

\* The timeout has been answered and, with that response standing, the
\* abandoned send has settled.
C22_Witness ==
    /\ variant = "part_000"
    /\ req.pc = "done" /\ req.resp.code = "TIMEOUT"
    /\ late = [pending |-> 0, discarded |-> TRUE]

\* C23: in server.js every admitted single send is eventually answered,
\* also when a call on the client (one of the guard's, or the send itself)
\* never settles: a timer bounds the wait.
C23_SingleSendAnswered ==
    (variant = "server_js" /\ req.kind = "single" /\ req.admitted
       /\ req.pc # "done")
    ~> (req.pc = "done")

\* C24: in part_000, when the single send's client.sendMessage fails with a
\* session-closed error, afterwards isReady and isAuthenticated are both
\* false, the status endpoint reports connected = false and the phase check
\* rejects sends; isReady becomes true again only by the ready event.
C24_SessionClosedDisconnects ==
    [][ /\ (variant = "part_000" /\ req.pc = "s_send" /\ req'.pc = "done"
              /\ req'.resp.code = "SESSION_CLOSED")
             => (~isReady' /\ ~isAuthenticated' /\ ~StatusConnected'
                 /\ ~PhaseCheck')
        /\ (variant = "part_000" /\ ~isReady /\ isReady')
             => (req' = req /\ lastEvent' = "other") ]_vars

\* The connection state of server.js.
ConnectionState ==
    <<client, qrCode, isReady, isAuthenticated, clientInitialized, initAttempts>>

\* C25: in server.js no step of the handlers of /qr, /status, /health, /,
\* /send, /send-bulk and /chats (every step that moves a request) writes
\* client, qrCode, isReady, isAuthenticated, clientInitialized or
\* initAttempts, on any path.
C25_HandlersOnlyRead ==
    [][ (variant = "server_js" /\ req' # req) => UNCHANGED ConnectionState ]_vars

\* /chats has answered a client error and the server is still ready.
C25_Witness ==
    /\ variant = "server_js"
    /\ req.kind = "chats" /\ req.pc = "done" /\ req.resp.status = 500
    /\ isReady /\ isAuthenticated /\ clientInitialized

\* C26: a bulk send works through its destinations one after another: a
\* step issues at most one call, a call is never issued for a destination
\* before the one in hand, and when a call is issued for destination j every
\* destination before j has its result entry recorded (its send, if one was
\* made, has settled).
C26_BulkSequential ==
    [][ (req'.kind = "bulk" /\ IssuesCall)
          => /\ Len(req'.calls) = Len(req.calls) + 1
             /\ LastCall(req')[2] = req'.i
             /\ req'.i >= req.i
             /\ Len(req'.results) >= req'.i - 1
             /\ \A j \in 1..(req'.i - 1) :
                   CallCount(req', "sendMessage", j) = 1
                     => req'.results[j].stage \in {"none", "send"} ]_vars

\* The second destination's first call is in flight, the first one's send
\* has settled and its entry is recorded.
C26_Witness ==
    /\ req.kind = "bulk" /\ req.i = 2 /\ Len(req.results) = 1
    /\ CallCount(req, "sendMessage", 1) = 1
    /\ LastCall(req) = <<GuardFirstCall, 2>>

\* The calls of the log that hand a message to client.sendMessage: the
\* user's message and the placeholder messages of the guard.
MessageSends == {"sendMessage", "sendDot", "sendTest"}

\* C27: in a bulk send, between a client.sendMessage call (the user's
\* message or a placeholder of the guard) and the next such call made for a
\* later destination there is a delay, whether the earlier one succeeded or
\* failed.
C27_DelayBetweenSends ==
    req.kind = "bulk" =>
      \A k, m \in 1..Len(req.calls) :
        (/\ k < m
         /\ req.calls[k][1] \in MessageSends
         /\ req.calls[m][1] \in MessageSends
         /\ req.calls[k][2] < req.calls[m][2])
          => \E j \in (k + 1)..(m - 1) : req.calls[j][1] = "delay"

\* C28: the stored QR image is the rendering of the most recent qr event:
\* with the payloads numbered in the order of their events, a stored image
\* is never replaced by the rendering of an earlier payload, in whichever
\* order the renderings finish.
C28_StoredQrIsLatest ==
    [][ (qrCode # 0 /\ qrCode' # 0) => qrCode' >= qrCode ]_vars

C30_VercelNoReconnectAfterLogout ==
    [][ /\ (variant = "part_001" /\ lastEvent' = "logout_disconnect")
             => timers' = timers
        /\ (variant = "part_001" /\ afterLogout /\ afterLogout')
             => client' = client ]_vars

\* C31: in part_001 initialization is capped at three clients: once three
\* clients have been constructed, no pending reconnect timer finds the
\* condition true under which its callback calls the init function, which
\* in this file constructs a client on every call.
C31_VercelAttemptsCapped ==
    (variant = "part_001" /\ client >= MAX_INIT_ATTEMPTS)
      => ~(timers > 0 /\ ReconnectWanted /\ ~HasAttemptCap)

\* C32: with a client whose every call returns or throws, every admitted
\* bulk send ends in its one response: the summary, whose counts are those
\* of the result list, with one entry for each contact; once the response
\* is sent the request sends nothing more.
C32_BulkTerminates ==
    /\ (req.kind = "bulk" /\ req.admitted /\ req.pc # "done")
         ~> (/\ req.pc = "done"
             /\ req.resp.code = "SUMMARY"
             /\ req.resp.total = Len(req.contacts)
             /\ req.resp.successful + req.resp.failed = Len(req.results)
             /\ Len(req.results) = Len(req.contacts))
    /\ [][ req.pc = "done" => (req' = req \/ req'.pc = "idle") ]_vars

\* C33: in server.js isReady implies isAuthenticated in every reachable
\* state, whatever the order of the client's events, of the rejections of
\* initialize() and of the logout requests; so the body of /status never
\* has ready true with authenticated false.
C33_ReadyImpliesAuthenticated ==
    variant = "server_js"
      => /\ (isReady => isAuthenticated)
         /\ ~(StatusBody.ready /\ ~StatusBody.authenticated)

\* The server is ready again on its second client, after a logout request
\* was answered.
C33_Witness ==
    /\ variant = "server_js"
    /\ isReady /\ isAuthenticated
    /\ client = 2
    /\ lastEvent \in {"logout_ok", "logout_failed"}

\* C34: in server.js and part_000 initAttempts is the number of clients
\* constructed since the process started: no step decreases or resets it,
\* the ready handler included, and once it has reached three no step
\* constructs a client any more, whatever disconnects follow.
C34_AttemptsNeverReset ==
    /\ [](HasAttemptCap => initAttempts = client)
    /\ [][ HasAttemptCap
             => /\ initAttempts' >= initAttempts
                /\ (initAttempts >= MAX_INIT_ATTEMPTS
                      => (client' = client /\ initAttempts' = initAttempts)) ]_vars

\* Three initializations were made, the last disconnect had a reason other
\* than LOGOUT, and the reconnect timer's call of the init function was
\* turned down.
C34_Witness ==
    /\ variant = "part_000"
    /\ initAttempts = MAX_INIT_ATTEMPTS /\ client = MAX_INIT_ATTEMPTS
    /\ lastInit = "capped"
    /\ ~afterLogout /\ ~isReady /\ timers = 0

\* C35: in server.js and part_000 the flags describe the client held in the
\* variable client: a ready event of a client that a reinitialization has
\* replaced changes neither isReady nor isAuthenticated nor the stored QR,
\* so that isReady is only ever set by the current client.
C35_ReplacedClientIgnored ==
    [][ (HasAttemptCap /\ lastEvent' = "replaced_client_ready")
          => UNCHANGED <<isReady, isAuthenticated, qrCode>> ]_vars

\* C36: in server.js and part_000, disconnects with a reason other than
\* LOGOUT handled before the first reconnect timer fires are answered by one
\* reinitialization: a timer that fires when no reconnect is owed any more
\* (the reinitialization has been made by an earlier timer, or the client
\* became ready) constructs no client and leaves initAttempts as it is.
C36_OneReinitPerOutage ==
    [][ (HasAttemptCap /\ ~afterLogout /\ ~owed /\ timers' < timers)
          => (client' = client /\ initAttempts' = initAttempts) ]_vars

\* C37: in server.js and part_000, for a destination that
\* client.isRegisteredUser reported as not registered the guard sends
\* neither its placeholder '.' nor the test message of the alternative
\* method.
C37_NoPlaceholderToUnregistered ==
    \A i \in req.unreg :
        /\ CallCount(req, "sendDot", i) = 0
        /\ CallCount(req, "sendTest", i) = 0

\* The first destination of a request was reported as not registered and
\* the request has been answered.
C37_Witness ==
    /\ variant \in {"server_js", "part_000"}
    /\ req.pc = "done"
    /\ req.unreg # {}
    /\ \A i \in req.unreg : CallCount(req, "isRegisteredUser", i) = 1

\* The handler is inside ensureChatExists.
GuardPcs == {"g_getChat", "g_isReg", "g_dummy", "g_settle"}

\* C38: in part_000 every step that leaves the guard either goes on to
\* client.sendMessage with the guard having returned, or, the guard having
\* thrown, ends the single send with HTTP 400 'Failed to create chat',
\* respectively records a failed entry for the contact and moves on to the
\* next contact; the user's message is never sent to a destination whose
\* guard threw.
C38_GuardFailureSkipsSend ==
    /\ [][ (variant = "part_000" /\ req.pc \in GuardPcs /\ req' # req)
             => \/ /\ req'.pc \in GuardPcs
                   /\ req'.i = req.i /\ req'.results = req.results
                \/ /\ req'.pc \in {"s_send", "b_send"}
                   /\ req'.guard = "ok"
                   /\ req'.i = req.i /\ req'.results = req.results
                \/ /\ req.kind = "single"
                   /\ req'.pc = "done"
                   /\ req'.guard = "failed"
                   /\ req'.resp = [NoResp EXCEPT !.status = 400,
                                                 !.code = "CHAT_FAILED"]
                \/ /\ req.kind = "bulk"
                   /\ Len(req'.results) > Len(req.results)
                   /\ req'.results[req.i] =
                         [who |-> req.contacts[req.i], success |-> FALSE,
                          stage |-> "guard", err |-> req'.results[req.i].err]
                   /\ (req'.i > req.i \/ req'.pc = "done") ]_vars
    /\ [](variant = "part_000"
            => /\ \A k \in 1..Len(req.results) :
                     req.results[k].stage = "guard"
                       => CallCount(req, "sendMessage", k) = 0
               /\ req.resp.code = "CHAT_FAILED"
                     => CallCount(req, "sendMessage", 0) = 0)

\* A bulk send of part_000 whose first guard threw has gone on and sent the
\* message to the second contact.
C38_Witness ==
    /\ variant = "part_000"
    /\ req.kind = "bulk" /\ req.pc = "done"
    /\ Len(req.results) = 2
    /\ req.results[1].stage = "guard"
    /\ req.results[2].success

\* C39: in part_001, once a disconnected event has been handled on client k
\* (lastEvent records the handler's run; part_001 treats every reason alike),
\* eventually the init function constructs the next client, or isReady and
\* clientInitialized both hold as the ready handler leaves them, however the
\* 5 s reconnect timer and the 25 s initTimeout of the earlier initialization
\* interleave.
C39_VercelReconnectFollows ==
    \A k \in 1..(MaxClients - 1) :
        (variant = "part_001" /\ client = k /\ lastEvent = "logout_disconnect")
        ~> (client > k \/ (isReady /\ clientInitialized))

====
